---- MODULE Spec2Model ----
(***************************************************************************)
(* Model of openapi_client.py: the request functions (GET, POST, PATCH,    *)
(* PUT, DELETE under Basic-Auth and API-key authentication) and the        *)
(* cursor pagination helper handle_pagination.                             *)
(*                                                                         *)
(* A run is one call of a request function.  The call issues the initial   *)
(* HTTP request and blocks; the server's answer is a nondeterministic      *)
(* response; handle_pagination then either raises, returns, or issues a    *)
(* continuation request and blocks again.  Every blocking network call is  *)
(* a step boundary of the model.                                           *)
(***************************************************************************)
EXTENDS Integers, Sequences, FiniteSets, TLC

VARIABLES pc, fn, params, aliased, argSrc, callerParams, defaultParams,
          ctx, json_content, requests, pages, result, error

vars == <<pc, fn, params, aliased, argSrc, callerParams, defaultParams,
          ctx, json_content, requests, pages, result, error>>

----------------------------------------------------------------------------
(* Bounds of the model *)

\* most pages (initial page included) the server serves in one run
MaxPages == 3

----------------------------------------------------------------------------
(* Values *)

\* JSON null and a missing key, as cursor values
NULL == "<null>"
ABSENT == "<absent>"

\* non-empty cursor tokens the server hands out
Tokens == {"c1", "c2"}
\* every value the server may put under nextCursor: a token, the empty
\* string, null, or no key at all
CursorVals == Tokens \cup {"", NULL, ABSENT}
\* values of one more top-level field of the envelope (e.g. "total")
TagVals == {"t1", "t2"}
ErrTexts == {"e1", "e2"}

\* the items arrays a page may carry: an empty page, a one-item page and a
\* two-item page whose items are out of alphabetical order
PageItems == {<<>>, <<"a">>, <<"b", "a">>}

\* decoded JSON bodies that carry an items key
ItemBodies ==
    [hasItems : {TRUE}, items : PageItems,
     nextCursor : CursorVals, tag : TagVals]

\* decoded JSON bodies without an items key (non-paginated resources)
PlainBodies ==
    [hasItems : {FALSE}, items : {<<>>}, nextCursor : {ABSENT, "c1"}, tag : {"t1"}]

Bodies == ItemBodies \cup PlainBodies

\* the body of a response that has no content
NoBody == [hasItems |-> FALSE, items |-> <<>>, nextCursor |-> ABSENT, tag |-> "none"]

\* responses the server can send
Responses ==
    [status : {200}, body : Bodies, text : {"json"}]
    \cup [status : {201}, body : PlainBodies, text : {"json"}]
    \cup [status : {204}, body : {NoBody}, text : {""}]
    \cup [status : {500}, body : {NoBody}, text : ErrTexts]

\* a query-parameter dict: a function from a finite set of keys to strings
EmptyMap == [k \in {} |-> ""]

\* dict[key] = value
DictSet(d, key, value) == [k \in (DOMAIN d) \cup {key} |-> IF k = key THEN value ELSE d[k]]

\* {**a, **b}: the entries of b override those of a
DictMerge(a, b) == [k \in (DOMAIN a) \cup (DOMAIN b) |-> IF k \in DOMAIN b THEN b[k] ELSE a[k]]

\* the mapping a caller builds to pass as params (a call without params, or
\* with an empty dict, runs on the function's default `params={}`)
CallerChoices == {[k \in {"filter"} |-> "f1"]}

NoResult == [kind |-> "none", value |-> NoBody]
NoError == [type |-> "none", url |-> <<>>, text |-> "", status |-> 0]
NoCtx == [verb |-> "none", url |-> <<>>, base_url |-> <<>>, endpoint |-> "none",
         auth |-> "none", apiKey |-> "none"]

\* Python truthiness of the value returned by dict.get("nextCursor")
Truthy(c) == c \notin {"", NULL, ABSENT}

----------------------------------------------------------------------------
(* The request functions: what each one sends and how it treats params *)

BasicAuthFns == {"get_request_basic_auth", "patch_request_basic_auth",
                 "put_request_basic_auth", "post_request_basic_auth",
                 "delete_request_basic_auth"}
ApiKeyFns == {"get_requests_api_key", "put_requests_api_key",
              "patch_requests_api_key", "post_requests_api_key",
              "delete_requests_api_key"}
Fns == BasicAuthFns \cup ApiKeyFns

\* the functions that hand their response to handle_pagination
PagingFns == {"get_request_basic_auth", "patch_request_basic_auth",
              "put_request_basic_auth", "get_requests_api_key",
              "put_requests_api_key", "patch_requests_api_key"}

\* the functions whose initial request is a PATCH or a PUT
PatchPutFns == {"patch_request_basic_auth", "put_request_basic_auth",
                "put_requests_api_key", "patch_requests_api_key"}

\* the credentials of the caller
BasicCredential == "user:password"
ApiKey == "key1"

\* the base_url and endpoint arguments of the caller; a url is the sequence
\* of its segments
BaseUrl == <<"base">>
Endpoint == "endpoint"

\* url = f'{base_url}/{endpoint}' (Basic-Auth functions)
UrlBasic == Append(BaseUrl, Endpoint)
\* f'{base_url}/v2.0', the base_url the API-key functions give handle_pagination
ApiKeyBase == Append(BaseUrl, "v2.0")
\* url = f'{base_url}/v2.0/{endpoint}' (API-key functions)
UrlApiKey == Append(Append(BaseUrl, "v2.0"), Endpoint)

\* a url built from the first segment of base_url alone
PaginationUrl_fromRoot(c) == <<c.base_url[1], c.endpoint>>

\* f'{base_url}/{endpoint}' as handle_pagination builds it from its arguments
PaginationUrl(c) == Append(c.base_url, c.endpoint)

\* the local params of put/patch/delete_requests_api_key
WithIgnoreOwnership(p) == DictMerge([k \in {"ignoreOwnership"} |-> "true"], p)

\* the local params of post_requests_api_key
WithOwnershipAndKey(p) ==
    DictMerge([k \in {"ignoreOwnership", "api_key"} |->
                   IF k = "api_key" THEN ApiKey ELSE "true"], p)

\* One call of request function f.  Its params argument m is either the
\* function's shared default `params={}` or a mapping of the caller (a new
\* one, or the one the caller passed before).  The function builds its
\* headers, url and, when `local` says so, a new local params dict, and sends
\* the initial request to url; hpBase is the base_url it gives
\* handle_pagination.  `keeps` tells whether the function's params is still
\* the very object it was given.
Issue(f, verb, url, hpBase, auth, key, local, keeps) ==
    /\ pc = "idle"
    /\ \E src \in {"default", "caller"} :
         \E m \in (IF src = "caller" THEN CallerChoices \cup {callerParams}
                                     ELSE {defaultParams[f]}) :
            /\ argSrc' = src
            /\ callerParams' = IF src = "caller" THEN m ELSE callerParams
            /\ params' = IF local = "ownership" THEN WithIgnoreOwnership(m)
                         ELSE IF local = "ownership+key" THEN WithOwnershipAndKey(m)
                         ELSE m
    /\ fn' = f
    /\ aliased' = keeps
    /\ ctx' = [verb |-> verb, url |-> url, base_url |-> hpBase, endpoint |-> Endpoint,
               auth |-> auth, apiKey |-> key]
    /\ requests' = <<[verb |-> verb, url |-> url, params |-> params',
                      auth |-> auth, apiKey |-> key]>>
    /\ pages' = <<>>
    /\ json_content' = NoBody
    /\ result' = NoResult
    /\ error' = NoError
    /\ pc' = "await_initial"
    /\ UNCHANGED defaultParams

get_request_basic_auth ==
    Issue("get_request_basic_auth", "GET", UrlBasic, BaseUrl, BasicCredential, "none", "same", TRUE)

patch_request_basic_auth ==
    Issue("patch_request_basic_auth", "PATCH", UrlBasic, BaseUrl, BasicCredential, "none", "same", TRUE)

put_request_basic_auth ==
    Issue("put_request_basic_auth", "PUT", UrlBasic, BaseUrl, BasicCredential, "none", "same", TRUE)

post_request_basic_auth ==
    Issue("post_request_basic_auth", "POST", UrlBasic, BaseUrl, BasicCredential, "none", "same", TRUE)

delete_request_basic_auth ==
    Issue("delete_request_basic_auth", "DELETE", UrlBasic, BaseUrl, BasicCredential, "none", "same", TRUE)

get_requests_api_key ==
    Issue("get_requests_api_key", "GET", UrlApiKey, ApiKeyBase, "none", ApiKey, "same", TRUE)

put_requests_api_key ==
    Issue("put_requests_api_key", "PUT", UrlApiKey, ApiKeyBase, "none", ApiKey, "ownership", FALSE)

patch_requests_api_key ==
    Issue("patch_requests_api_key", "PATCH", UrlApiKey, ApiKeyBase, "none", ApiKey, "ownership", FALSE)

post_requests_api_key ==
    Issue("post_requests_api_key", "POST", UrlApiKey, ApiKeyBase, "none", ApiKey, "ownership+key", FALSE)

delete_requests_api_key ==
    Issue("delete_requests_api_key", "DELETE", UrlApiKey, ApiKeyBase, "none", ApiKey, "ownership", FALSE)

----------------------------------------------------------------------------
(* handle_pagination *)

\* a status test that lets every response through
StatusOk_any(status) == TRUE

\* `response.status_code != 200` negated: the only status the helper accepts
StatusOk(status) == status = 200

\* a test that also takes a body with a cursor for a paginated one
HasItemsKey_orCursor(body) == body.hasItems \/ Truthy(body.nextCursor)

\* `"items" in json_content`
HasItemsKey(body) == body.hasItems

\* a loop `while True` whose exit test was lost
HasMore_always(jc) == TRUE

\* a loop test `"nextCursor" in json_content`: a null cursor keeps the loop going
HasMore_keyPresent(jc) == jc.nextCursor # ABSENT

\* a loop test that reads a key the envelope never has: the loop never runs
HasMore_wrongKey(jc) == FALSE

\* the loop test `json_content.get("nextCursor")`
HasMore(jc) == Truthy(jc.nextCursor)

\* `params = params or {}`: an empty dict is falsy, so it is replaced by a new
\* one; a non-empty dict stays the very object the caller passed
SameObjectAfterOr(p, wasSame) == wasSame /\ DOMAIN p # {}

\* a continuation that sends the cursor alone: `params = {"next": cursor}`
ContinuationParams_replace(p, cursor) == [k \in {"next"} |-> cursor]

\* `params = params or {}; params["next"] = json_content["nextCursor"]`
ContinuationParams(p, cursor) == DictSet(p, "next", cursor)

\* a continuation sent with the verb of the initial request
ContinuationVerb_same(verb0) == verb0

\* the continuation request is always `requests.get(...)`
ContinuationVerb(verb0) == "GET"

\* a merge that puts the new page in front of the accumulator
Extend_prepend(json_items, r_items) == r_items \o json_items

\* `json_items.extend(r_content['items'])`
Extend(json_items, r_items) == json_items \o r_items

\* `r_content.get("nextCursor")`: None when the key is missing
GetNextCursor(r_content) ==
    IF r_content.nextCursor = ABSENT THEN NULL ELSE r_content.nextCursor

\* a loop body that keeps the envelope of the page just fetched
MergePage_lastEnvelope(jc, r_content) ==
    [r_content EXCEPT !.items = Extend(jc.items, r_content.items)]

\* a loop body that forgets line 87 and keeps the first page's cursor
MergePage_keepCursor(jc, r_content) ==
    [jc EXCEPT !.items = Extend(jc.items, r_content.items)]

\* the loop body after a successful continuation response: the first page's
\* envelope takes the extended items and the new page's cursor
MergePage(jc, r_content) ==
    [jc EXCEPT !.items = Extend(jc.items, r_content.items),
               !.nextCursor = GetNextCursor(r_content)]

\* the continuation request built from the helper's arguments
ContinuationRequest(c, p) ==
    [verb |-> ContinuationVerb(c.verb), url |-> PaginationUrl(c), params |-> p,
     auth |-> c.auth, apiKey |-> c.apiKey]

\* an error message that names the url alone
RequestException_noText(url, response) ==
    [type |-> "Exception", url |-> url, text |-> "", status |-> 0]

\* raise Exception(f"Error retrieving data from {url}. Error: {response.text}")
RequestException(url, response) ==
    [type |-> "Exception", url |-> url, text |-> response.text, status |-> 0]

\* a lenient read `r_content.get('items', [])` that never raises
SubscriptItemsOk_lenient(r_content) == TRUE

\* `r_content['items']` succeeds only when the key is there
SubscriptItemsOk(r_content) == r_content.hasItems

\* the KeyError of r_content['items'] on a page without items
KeyErrorItems == [type |-> "KeyError", url |-> <<>>, text |-> "items", status |-> 0]

JsonResult(body) == [kind |-> "json", value |-> body]
TrueResult == [kind |-> "True", value |-> NoBody]

\* what the server may answer to the n-th request of a run: any response,
\* except that the MaxPages-th page does not hand out another token and that
\* the server has no page beyond it
ServerResponses(n) ==
    IF n < MaxPages THEN Responses
    ELSE IF n = MaxPages
    THEN {r \in Responses : r.body.nextCursor \notin Tokens \/ ~r.body.hasItems}
    ELSE {}

\* the run ends by raising e
Raise(e) ==
    /\ pc' = "failed"
    /\ error' = e
    /\ UNCHANGED <<params, aliased, callerParams, defaultParams, json_content,
                   requests, result>>

\* the run ends by returning v
Return(v, jc) ==
    /\ pc' = "returned"
    /\ result' = v
    /\ json_content' = jc
    /\ UNCHANGED <<params, aliased, callerParams, defaultParams, requests, error>>

\* the head of the while loop with json_content = jc: either one more
\* request is built and sent, or json_content is returned
LoopHead(jc) ==
    IF HasMore(jc)
    THEN LET same == SameObjectAfterOr(params, aliased)
             p == ContinuationParams(params, jc.nextCursor)
         IN  /\ params' = p
             /\ aliased' = same
             /\ callerParams' = IF same /\ argSrc = "caller" THEN p ELSE callerParams
             /\ defaultParams' = IF same /\ argSrc = "default"
                                 THEN [defaultParams EXCEPT ![fn] = p]
                                 ELSE defaultParams
             /\ requests' = Append(requests, ContinuationRequest(ctx, p))
             /\ json_content' = jc
             /\ pc' = "await_page"
             /\ UNCHANGED <<result, error>>
    ELSE Return(JsonResult(jc), jc)

\* handle_pagination up to its first blocking call, on the initial response
HandlePaginationInitial ==
    /\ pc = "await_initial"
    /\ fn \in PagingFns
    /\ \E response \in ServerResponses(1) :
         /\ pages' = Append(pages, response)
         /\ IF ~StatusOk(response.status)
            THEN Raise(RequestException(PaginationUrl(ctx), response))
            ELSE IF ~HasItemsKey(response.body)
            THEN Return(JsonResult(response.body), json_content)
            ELSE LoopHead(response.body)
    /\ UNCHANGED <<fn, argSrc, ctx>>

\* the rest of one loop iteration, on a continuation response, and the next
\* loop test
HandlePaginationPage ==
    /\ pc = "await_page"
    /\ \E response \in ServerResponses(Len(pages) + 1) :
         /\ pages' = Append(pages, response)
         /\ IF ~StatusOk(response.status)
            THEN Raise(RequestException(PaginationUrl(ctx), response))
            ELSE IF ~SubscriptItemsOk(response.body)
            THEN Raise(KeyErrorItems)
            ELSE LoopHead(MergePage(json_content, response.body))
    /\ UNCHANGED <<fn, argSrc, ctx>>

----------------------------------------------------------------------------
(* The functions that judge the response themselves *)

\* post_requests_api_key: `if response.status_code == 204`
PostApiKeyOk(status) == status = 204

\* post_request_basic_auth: `if response.status_code in [200, 201, 204]`
PostBasicOk(status) == status \in {200, 201, 204}

\* delete_*: `if response.status_code in [200, 204]`
DeleteOk(status) == status \in {200, 204}

\* response.raise_for_status() raises for 4xx and 5xx
RaisesForStatus(status) == status >= 400 /\ status < 600

\* raise Exception(f"... {url}. Error: {e}") with e the HTTPError of
\* raise_for_status, whose text names the status code but not the body
HttpErrorException(url, response) ==
    [type |-> "Exception", url |-> url, text |-> "", status |-> response.status]

RespondPostApiKey ==
    /\ pc = "await_initial"
    /\ fn = "post_requests_api_key"
    /\ \E response \in Responses :
         /\ pages' = Append(pages, response)
         /\ IF PostApiKeyOk(response.status)
            THEN Return(TrueResult, json_content)
            ELSE Raise(RequestException(ctx.url, response))
    /\ UNCHANGED <<fn, argSrc, ctx>>

RespondPostBasicAuth ==
    /\ pc = "await_initial"
    /\ fn = "post_request_basic_auth"
    /\ \E response \in Responses :
         /\ pages' = Append(pages, response)
         /\ IF PostBasicOk(response.status)
            THEN Return(IF response.body # NoBody THEN JsonResult(response.body)
                        ELSE TrueResult, json_content)
            ELSE Raise(RequestException(ctx.url, response))
    /\ UNCHANGED <<fn, argSrc, ctx>>

RespondDelete ==
    /\ pc = "await_initial"
    /\ fn \in {"delete_requests_api_key", "delete_request_basic_auth"}
    /\ \E response \in Responses :
         /\ pages' = Append(pages, response)
         /\ IF DeleteOk(response.status)
            THEN Return(TrueResult, json_content)
            ELSE IF RaisesForStatus(response.status)
            THEN Raise(HttpErrorException(ctx.url, response))
            ELSE Return(JsonResult(response.body), json_content)
    /\ UNCHANGED <<fn, argSrc, ctx>>

\* the caller has the outcome and the locals of the call are gone; only the
\* mapping objects that outlive the call remain
Finish ==
    /\ pc \in {"returned", "failed"}
    /\ pc' = "idle"
    /\ fn' = "none"
    /\ params' = EmptyMap
    /\ aliased' = FALSE
    /\ argSrc' = "default"
    /\ ctx' = NoCtx
    /\ json_content' = NoBody
    /\ requests' = <<>>
    /\ pages' = <<>>
    /\ result' = NoResult
    /\ error' = NoError
    /\ UNCHANGED <<callerParams, defaultParams>>

----------------------------------------------------------------------------

Init ==
    /\ pc = "idle"
    /\ fn = "none"
    /\ params = EmptyMap
    /\ aliased = FALSE
    /\ argSrc = "default"
    /\ callerParams \in CallerChoices
    /\ defaultParams = [f \in Fns |-> EmptyMap]
    /\ ctx = NoCtx
    /\ json_content = NoBody
    /\ requests = <<>>
    /\ pages = <<>>
    /\ result = NoResult
    /\ error = NoError

Next ==
    \/ get_request_basic_auth
    \/ patch_request_basic_auth
    \/ put_request_basic_auth
    \/ post_request_basic_auth
    \/ delete_request_basic_auth
    \/ get_requests_api_key
    \/ put_requests_api_key
    \/ patch_requests_api_key
    \/ post_requests_api_key
    \/ delete_requests_api_key
    \/ HandlePaginationInitial
    \/ HandlePaginationPage
    \/ RespondPostApiKey
    \/ RespondPostBasicAuth
    \/ RespondDelete
    \/ Finish

Spec == Init /\ [][Next]_vars

\* One run from a fresh start: the steps of Next without Finish.
NextRun ==
    \/ get_request_basic_auth
    \/ patch_request_basic_auth
    \/ put_request_basic_auth
    \/ post_request_basic_auth
    \/ delete_request_basic_auth
    \/ get_requests_api_key
    \/ put_requests_api_key
    \/ patch_requests_api_key
    \/ post_requests_api_key
    \/ delete_requests_api_key
    \/ HandlePaginationInitial
    \/ HandlePaginationPage
    \/ RespondPostApiKey
    \/ RespondPostBasicAuth
    \/ RespondDelete

\* Every request is a blocking call that the transport answers: a run that
\* waits for a response the server has gets it and handles it.
FairSpec ==
    /\ Init
    /\ [][NextRun]_vars
    /\ WF_vars(HandlePaginationInitial)
    /\ WF_vars(HandlePaginationPage)
    /\ WF_vars(RespondPostApiKey)
    /\ WF_vars(RespondPostBasicAuth)
    /\ WF_vars(RespondDelete)

----------------------------------------------------------------------------
(* Properties.  `pages` is the log of the responses the server sent in     *)
(* this run and `requests` the log of the requests the client sent;        *)
(* requests[1] is the initial request and requests[k+1] the k-th           *)
(* continuation request.                                                   *)

\* the items of the logged pages 1..n, concatenated in fetch order
RECURSIVE ConcatItems(_, _)
ConcatItems(log, n) ==
    IF n = 0 THEN <<>> ELSE ConcatItems(log, n - 1) \o log[n].body.items

\* the sum of the lengths of the items of the logged pages 1..n
RECURSIVE SumLen(_, _)
SumLen(log, n) ==
    IF n = 0 THEN 0 ELSE SumLen(log, n - 1) + Len(log[n].body.items)

\* every logged page up to the n-th is a success that carries items
AllItemPages(n) ==
    \A k \in 1..n : pages[k].status = 200 /\ pages[k].body.hasItems

LastPage == pages[Len(pages)]

\* C1: when a run of handle_pagination returns and every fetched page was a
\* success with items, the returned items are the concatenation of the
\* pages' items in fetch order, and their number is the sum of the page
\* lengths.
C1_ItemsAreConcatenation ==
    (pc = "returned" /\ fn \in PagingFns /\ AllItemPages(Len(pages)))
        => /\ result.kind = "json"
           /\ result.value.items = ConcatItems(pages, Len(pages))
           /\ Len(result.value.items) = SumLen(pages, Len(pages))

\* C1 witness: a three-page run returned, with a repeated item and items out
\* of alphabetical order kept as fetched.
C1_Witness ==
    /\ pc = "returned"
    /\ Len(pages) = 3
    /\ pages[1].body.items = <<"b", "a">>
    /\ pages[2].body.items = <<"a">>
    /\ pages[3].body.items = <<"a">>
    /\ result.value.items = <<"b", "a", "a", "a">>

\* C2: the k-th continuation request carries `next` equal to the nextCursor
\* of the k-th fetched page, for every k.
C2_NextIsPrecedingCursor ==
    \A k \in 1..(Len(requests) - 1) :
        /\ k <= Len(pages)
        /\ "next" \in DOMAIN requests[k + 1].params
        /\ requests[k + 1].params["next"] = pages[k].body.nextCursor

\* C2 witness: the second continuation request has been sent, after two
\* pages with different cursors.
C2_Witness ==
    /\ Len(requests) = 3
    /\ pages[1].body.nextCursor = "c1"
    /\ pages[2].body.nextCursor = "c2"
    /\ requests[3].params["next"] = "c2"

\* C3 as stated: the parameter set of every continuation request is exactly
\* {next}.
C3_OnlyNext ==
    \A k \in 2..Len(requests) : DOMAIN requests[k].params = {"next"}

\* C3 amended: the parameters of every continuation request are the
\* parameters of the initial request with `next` set to the preceding page's
\* cursor; the initial parameters are carried over.
C3_InitialParamsPlusNext ==
    \A k \in 2..Len(requests) :
        /\ k - 1 <= Len(pages)
        /\ requests[k].params =
               DictSet(requests[1].params, "next", pages[k - 1].body.nextCursor)

\* C3 witness: a continuation request of put_requests_api_key that still
\* carries the caller's filter and ignoreOwnership beside next.
C3_Witness ==
    /\ fn = "put_requests_api_key"
    /\ Len(requests) = 2
    /\ DOMAIN requests[2].params = {"filter", "ignoreOwnership", "next"}

\* C4: a successful initial response without an items key is returned
\* unchanged and no continuation request is ever sent, whatever its
\* nextCursor.
C4_NoItemsReturnedAsIs ==
    (fn \in PagingFns /\ Len(pages) >= 1 /\ pages[1].status = 200
         /\ ~pages[1].body.hasItems)
        => /\ pc = "returned"
           /\ result = JsonResult(pages[1].body)
           /\ Len(requests) = 1
           /\ Len(pages) = 1

\* C4 witness: a body without items but with a cursor token was returned.
C4_Witness ==
    /\ pc = "returned"
    /\ fn \in PagingFns
    /\ Len(pages) = 1
    /\ ~pages[1].body.hasItems
    /\ pages[1].body.nextCursor = "c1"
    /\ result.value.nextCursor = "c1"

\* C5: once a page of an all-success run carries a null or absent
\* nextCursor, it is the last page: the run has returned and the number of
\* requests sent equals the number of pages, so n pages mean n-1
\* continuation requests and none after the last page.
C5_StopsAtNullCursor ==
    \A k \in 1..Len(pages) :
        (fn \in PagingFns /\ AllItemPages(k)
             /\ pages[k].body.nextCursor \in {NULL, ABSENT})
            => /\ k = Len(pages)
               /\ Len(requests) = k
               /\ pc = "returned"

\* C5 witness: a run of three pages, the last with a null cursor, returned
\* after two continuation requests.
C5_Witness ==
    /\ pc = "returned"
    /\ Len(pages) = 3
    /\ Len(requests) = 3
    /\ pages[1].body.nextCursor \in Tokens
    /\ pages[2].body.nextCursor \in Tokens
    /\ pages[3].body.nextCursor = NULL

\* a status outside the success statuses 200, 201 and 204
NonSuccess(status) == status \notin {200, 201, 204}

\* C6: as soon as a response of a run of handle_pagination (the initial one
\* or a continuation) has a non-success status it is the last response of
\* the run: the run has failed, no request was sent after
\* it, and no result is returned.
C6_AllOrNothing ==
    \A k \in 1..Len(pages) :
        (fn \in PagingFns /\ NonSuccess(pages[k].status))
            => /\ k = Len(pages)
               /\ pc = "failed"
               /\ Len(requests) = k
               /\ result = NoResult

\* C6 witness: the second continuation request got status 500 after items
\* had been accumulated, and the run failed.
C6_Witness ==
    /\ pc = "failed"
    /\ fn \in PagingFns
    /\ Len(pages) = 3
    /\ pages[3].status = 500
    /\ Len(json_content.items) >= 2
    /\ result = NoResult

\* C7 as stated: every request of a run has the verb of the initial request.
C7_SameVerb ==
    \A k \in 1..Len(requests) : requests[k].verb = requests[1].verb

\* C7 amended: every continuation request is a GET, whatever the verb of the
\* initial request.
C7_ContinuationIsGet ==
    \A k \in 2..Len(requests) : requests[k].verb = "GET"

\* C7 witness: a run started by PATCH has sent a continuation request.
C7_Witness ==
    /\ fn = "patch_request_basic_auth"
    /\ Len(requests) = 2
    /\ requests[1].verb = "PATCH"
    /\ requests[2].verb = "GET"

\* C8 as stated: a run of handle_pagination never returns while the last
\* fetched page carries a nextCursor that is present and non-null.
C8_NoReturnOnNonNullCursor ==
    (pc = "returned" /\ fn \in PagingFns)
        => LastPage.body.nextCursor \in {NULL, ABSENT}

\* C8 amended: a run whose first page carries items never returns while the
\* last fetched page carries a non-empty cursor token; it does return on a
\* cursor that is null, absent or the empty string.
C8_NoReturnOnToken ==
    (pc = "returned" /\ fn \in PagingFns /\ pages[1].body.hasItems)
        => LastPage.body.nextCursor \in {NULL, ABSENT, ""}

\* C8 witness: a run returned after a second page whose cursor is the empty
\* string.
C8_Witness ==
    /\ pc = "returned"
    /\ fn \in PagingFns
    /\ Len(pages) = 2
    /\ pages[1].body.nextCursor \in Tokens
    /\ pages[2].body.nextCursor = ""
    /\ Len(requests) = 2

\* C9: no request function fails on an initial response of status 200.
C9_Status200IsSuccess ==
    (pc = "failed" /\ Len(pages) = 1) => pages[1].status # 200

\* C10: a PATCH or PUT function does not fail on an initial response of
\* status 201 or 204.
C10_PatchPutAccept201And204 ==
    (pc = "failed" /\ fn \in PatchPutFns /\ Len(pages) = 1)
        => pages[1].status \notin {201, 204}

\* the functions that wrap the HTTPError of raise_for_status
DeleteFns == {"delete_requests_api_key", "delete_request_basic_auth"}

\* C11 as stated: the error of a run that failed on a response's status
\* carries that response's status code and its body text.
C11_ErrorHasStatusAndText ==
    (pc = "failed" /\ error.type = "Exception")
        => /\ error.status = LastPage.status
           /\ error.text = LastPage.text

\* C11 amended: the error of a run of handle_pagination or of a POST
\* function that failed on a response's status carries the request url and
\* that response's body text, and no status code.
C11_ErrorHasUrlAndText ==
    (pc = "failed" /\ error.type = "Exception" /\ fn \notin DeleteFns)
        => /\ error.text = LastPage.text
           /\ error.url = requests[1].url
           /\ error.status = 0

\* C11 witness: a continuation response of status 500 with body text "e2"
\* failed the run, and the error carries "e2".
C11_Witness ==
    /\ pc = "failed"
    /\ fn \in PagingFns
    /\ Len(pages) = 2
    /\ pages[2].status = 500
    /\ pages[2].text = "e2"
    /\ error.text = "e2"
    /\ error.status = 0

\* C12: under FairSpec, a run of handle_pagination that waits for a response
\* eventually returns, unless some response was not a success with items (in
\* which case it has failed or returned the plain body); the server ends the
\* cursor chain after at most MaxPages pages and the client has no cap of
\* its own.
C12_RunEventuallyReturns ==
    (pc \in {"await_initial", "await_page"} /\ fn \in PagingFns)
        ~> (\/ pc = "returned"
            \/ (pc = "failed" /\ ~AllItemPages(Len(pages))))

\* C12 witness: a run followed the cursor chain to the server's last page,
\* every page a success with items, and returned.
C12_Witness ==
    /\ pc = "returned"
    /\ fn \in PagingFns
    /\ Len(pages) = MaxPages
    /\ Len(requests) = MaxPages
    /\ AllItemPages(Len(pages))
    /\ LastPage.body.nextCursor \in {NULL, ABSENT}

\* C13: a run leaves the params mapping it was given unchanged: the
\* caller's mapping stays as the caller built it, every function's default
\* `params={}` stays empty, and the initial request of a run carries no
\* `next` left over from an earlier run.
C13_ParamsMappingUnchanged ==
    /\ callerParams \in CallerChoices
    /\ \A f \in Fns : defaultParams[f] = EmptyMap
    /\ (requests # <<>> => "next" \notin DOMAIN requests[1].params)

\* C14: every request of a run, the initial one and each continuation, goes
\* to the same url and carries the same credential: the X-API-Key header
\* with the caller's key under the API-key scheme, the caller's (username,
\* password) under the Basic-Auth scheme.
C14_SameUrlAndCredential ==
    \A k \in 1..Len(requests) :
        /\ requests[k].url = requests[1].url
        /\ requests[k].auth = requests[1].auth
        /\ requests[k].apiKey = requests[1].apiKey
        /\ (fn \in ApiKeyFns => requests[k].apiKey = ApiKey)
        /\ (fn \in BasicAuthFns => requests[k].auth = BasicCredential)

\* C14 witness: the second continuation request of an API-key run went to
\* the v2.0 url with the key.
C14_Witness ==
    /\ fn = "get_requests_api_key"
    /\ Len(requests) = 3
    /\ requests[3].url = <<"base", "v2.0", "endpoint">>
    /\ requests[3].apiKey = "key1"
    /\ requests[1].url = requests[3].url

\* a multi-page run of handle_pagination has returned
MultiPageReturned == pc = "returned" /\ fn \in PagingFns /\ Len(pages) >= 2

\* C15 as stated: the result of a multi-page run has the last page's cursor
\* (null and absent alike) and, in every other top-level field, the value of
\* the last page.
C15_LastPageEnvelope ==
    MultiPageReturned
        => /\ \/ result.value.nextCursor = LastPage.body.nextCursor
              \/ {result.value.nextCursor, LastPage.body.nextCursor} \subseteq {NULL, ABSENT}
           /\ result.value.tag = LastPage.body.tag

\* C15 amended: the result of a multi-page run is the first page's envelope:
\* its items are the accumulated sequence, its nextCursor is the last page's
\* cursor (null when the last page has none), and every other top-level field
\* has the value of the first page.
C15_FirstPageEnvelope ==
    MultiPageReturned
        => /\ result.value.items = ConcatItems(pages, Len(pages))
           /\ result.value.nextCursor = (IF LastPage.body.nextCursor = ABSENT THEN NULL
                                         ELSE LastPage.body.nextCursor)
           /\ result.value.tag = pages[1].body.tag

\* C15 witness: a two-page run returned whose pages differ in the other
\* field, and the result has the first page's value.
C15_Witness ==
    /\ MultiPageReturned
    /\ Len(pages) = 2
    /\ pages[1].body.tag = "t1"
    /\ pages[2].body.tag = "t2"
    /\ pages[2].body.nextCursor = ABSENT
    /\ result.value.tag = "t1"
    /\ result.value.nextCursor = NULL

\* C16: a continuation response with success status but no items field is
\* the last response of its run: the run has failed, nothing is returned and
\* no request was sent after it.
C16_PageWithoutItemsFails ==
    \A k \in 2..Len(pages) :
        (fn \in PagingFns /\ pages[k].status = 200 /\ ~pages[k].body.hasItems)
            => /\ k = Len(pages)
               /\ pc = "failed"
               /\ result = NoResult
               /\ Len(requests) = k

\* C16 witness: after a first page with an item and a cursor token, the
\* continuation response had no items and the run failed with the KeyError.
C16_Witness ==
    /\ pc = "failed"
    /\ fn \in PagingFns
    /\ Len(pages) = 2
    /\ pages[1].body.items = <<"a">>
    /\ pages[1].body.nextCursor = "c1"
    /\ pages[2].status = 200
    /\ ~pages[2].body.hasItems
    /\ error.type = "KeyError"
    /\ result = NoResult

====
